---- MODULE Spec2Model ----
(***************************************************************************)
(* Model of src/dashboard.py: the loader, the aggregation functions over   *)
(* the loaded bike-sharing dataset, and the module-level statements that   *)
(* call them (lines 121-147).                                              *)
(*                                                                         *)
(* A DataFrame is a record [kind, rows, month_dtype]; rows is the sequence *)
(* of Usage Records in file order.  An aggregated table is a sequence of   *)
(* records in output order.  A mean is kept exact as [sum, n]; n = 0 is    *)
(* NaN.  Dates are day numbers counted from Monday 2010-12-27, so that     *)
(* day % 7 = 0 is a Monday and day % 7 = 6 a Sunday.                       *)
(***************************************************************************)
EXTENDS Integers, Sequences, FiniteSets, TLC

VARIABLES
    file,        \* data/main_data.csv: [exists, rows]
    observed,    \* pandas' default for groupby(observed=...) on categorical keys
    mode,        \* "script": the module runs top to bottom; "calls": its functions are called in any order
    pc,          \* position in the module-level code
    main_data,   \* the module-level name main_data
    results,     \* the other module-level names bound so far (name -> value)
    ncalls,      \* statements executed after line 122
    st_errors    \* messages shown with st.error

vars == <<file, observed, mode, pc, main_data, results, ncalls, st_errors>>

----------------------------------------------------------------------------
(* Bounds *)

MaxRows == 2      \* rows in the data file
MaxCalls == 3     \* statements executed in "calls" mode
MaxDays == 15     \* rows of a daily-totals table given to weekly_trend directly
MaxStart == 7     \* first day number of such a table is in 0..MaxStart-1

----------------------------------------------------------------------------
(* Data *)

month_order ==
    <<"Jan", "Feb", "Mar", "Apr", "May", "Jun",
      "Jul", "Aug", "Sep", "Oct", "Nov", "Dec">>

\* The same labels as Python orders str values (object dtype).
StrOrder ==
    <<"Apr", "Aug", "Dec", "Feb", "Jan", "Jul",
      "Jun", "Mar", "May", "Nov", "Oct", "Sep">>

\* Season labels as Python orders str values.
SeasonOrder == <<"Fall", "Spring", "Summer", "Winter">>

NaN == "NaN"

IndexOf(seq, x) == CHOOSE i \in DOMAIN seq : seq[i] = x

\* Calendar attributes of the sample dates (day numbers).
\*   5 = 2011-01-01 (Sat), 98 = 2011-04-04 (Mon), 401 = 2012-02-01 (Wed)
Calendar(d) ==
    CASE d = 5   -> [year |-> 2011, month |-> "Jan", season |-> "Winter", workingday |-> 0]
      [] d = 98  -> [year |-> 2011, month |-> "Apr", season |-> "Spring", workingday |-> 1]
      [] d = 401 -> [year |-> 2012, month |-> "Feb", season |-> "Winter", workingday |-> 1]

\* One Usage Record; total_count = casual + registered (spec section 3).
MkRow(d, h, t, c, r) ==
    [date |-> d, year |-> Calendar(d).year, month |-> Calendar(d).month,
     hour |-> h, season |-> Calendar(d).season,
     workingday |-> Calendar(d).workingday, temp |-> t,
     casual |-> c, registered |-> r, total_count |-> c + r]

\* The sample records the data file is drawn from.
RowPool ==
    { MkRow(5, 0, 24, 1, 2),   MkRow(5, 8, 30, 0, 3),
      MkRow(98, 8, 50, 2, 2),  MkRow(401, 0, 20, 0, 1) }

Datasets == UNION { [1..n -> RowPool] : n \in 1..MaxRows }

DataFrame(rows) == [kind |-> "DataFrame", rows |-> rows, month_dtype |-> "object"]
None == [kind |-> "None", rows |-> <<>>, month_dtype |-> "object"]
Unbound == [kind |-> "unbound", rows |-> <<>>, month_dtype |-> "object"]

----------------------------------------------------------------------------
(* pandas: Categorical, groupby, agg, reset_index *)

\* pd.Categorical(values, categories=month_order): a value that is no
\* category becomes NaN.
ToCategory(m) == IF \E i \in DOMAIN month_order : month_order[i] = m THEN m ELSE NaN

\* (variant) the month column sorts as text whatever its dtype.
ColRankText(df, c, v) ==
    CASE c = "month"  -> IndexOf(StrOrder, v)
      [] c = "season" -> IndexOf(SeasonOrder, v)
      [] OTHER        -> v

\* Sort rank of value v of column c.
ColRank(df, c, v) ==
    CASE c = "month"  -> IF df.month_dtype = "category"
                         THEN IndexOf(month_order, v)
                         ELSE IndexOf(StrOrder, v)
      [] c = "season" -> IndexOf(SeasonOrder, v)
      [] OTHER        -> v

\* Lexicographic order of group keys (tuples of the key columns' values).
RECURSIVE KeyLess(_, _, _, _)
KeyLess(df, cols, k1, k2) ==
    IF cols = <<>> THEN FALSE
    ELSE LET a == ColRank(df, Head(cols), Head(k1))
             b == ColRank(df, Head(cols), Head(k2))
         IN  a < b \/ (a = b /\ KeyLess(df, Tail(cols), Tail(k1), Tail(k2)))

RECURSIVE SetToSeq(_)
SetToSeq(S) ==
    IF S = {} THEN <<>>
    ELSE LET x == CHOOSE y \in S : TRUE IN <<x>> \o SetToSeq(S \ {x})

\* sort=True: the group keys in ascending order.
SortKeys(df, cols, S) ==
    SortSeq(SetToSeq(S), LAMBDA a, b : KeyLess(df, cols, a, b))

KeyOf(r, cols) == [i \in DOMAIN cols |-> r[cols[i]]]

\* dropna=True: a row with a NaN key belongs to no group (only the month
\* column, once converted, can hold NaN).
HasNaN(cols, k) == \E i \in DOMAIN cols : cols[i] = "month" /\ k[i] = NaN

IsCategorical(df, c) == c = "month" /\ df.month_dtype = "category"

\* The values a key column contributes to the result index.
Levels(df, c) ==
    IF IsCategorical(df, c) /\ ~observed
    THEN {month_order[i] : i \in DOMAIN month_order}
    ELSE {df.rows[i][c] : i \in {j \in DOMAIN df.rows : ~HasNaN(<<c>>, <<df.rows[j][c]>>)}}

ObservedKeys(df, cols) ==
    {k \in {KeyOf(df.rows[i], cols) : i \in DOMAIN df.rows} : ~HasNaN(cols, k)}

\* With observed=False and a categorical key the result holds the product
\* of the key columns' levels, else the key combinations that occur.
GroupKeys(df, cols) ==
    IF (\E i \in DOMAIN cols : IsCategorical(df, cols[i])) /\ ~observed
    THEN IF Len(cols) = 1
         THEN {<<x>> : x \in Levels(df, cols[1])}
         ELSE {<<x, y>> : x \in Levels(df, cols[1]), y \in Levels(df, cols[2])}
    ELSE ObservedKeys(df, cols)

\* (variant) only the first row of each key is kept, as after drop_duplicates.
GroupRowsFirstOnly(df, cols, k) ==
    {i \in DOMAIN df.rows :
        /\ KeyOf(df.rows[i], cols) = k
        /\ \A j \in 1..(i - 1) : KeyOf(df.rows[j], cols) # k}

\* Positions of the rows of group k.
GroupRows(df, cols, k) == {i \in DOMAIN df.rows : KeyOf(df.rows[i], cols) = k}

RECURSIVE SumAt(_, _, _)
SumAt(rows, col, I) ==
    IF I = {} THEN 0
    ELSE LET i == CHOOSE j \in I : TRUE
         IN  rows[i][col] + SumAt(rows, col, I \ {i})

\* (variant) a weekly mean that always divides by 7.
MeanOfSeven(rows, col, I) == [sum |-> SumAt(rows, col, I), n |-> 7]

Mean(rows, col, I) == [sum |-> SumAt(rows, col, I), n |-> Cardinality(I)]

\* reset_index(): the key columns of one output row.
KeyCols(cols, k) == [c \in {cols[i] : i \in DOMAIN cols} |-> k[IndexOf(cols, c)]]

\* groupby(cols).agg({"total_count": "sum"}).reset_index()
GroupSum(df, cols) ==
    LET keys == SortKeys(df, cols, GroupKeys(df, cols))
    IN  [j \in DOMAIN keys |->
            KeyCols(cols, keys[j]) @@
            ("total_count" :> SumAt(df.rows, "total_count", GroupRows(df, cols, keys[j])))]

\* groupby(cols).agg({"total_count": ["mean", "sum"]}).reset_index()
GroupMeanSum(df, cols) ==
    LET keys == SortKeys(df, cols, GroupKeys(df, cols))
    IN  [j \in DOMAIN keys |->
            KeyCols(cols, keys[j]) @@
            ("total_count_mean" :> Mean(df.rows, "total_count", GroupRows(df, cols, keys[j]))) @@
            ("total_count_sum" :> SumAt(df.rows, "total_count", GroupRows(df, cols, keys[j])))]

\* groupby(cols).agg({"temp": "mean", "total_count": "sum"}).reset_index()
GroupTempSum(df, cols) ==
    LET keys == SortKeys(df, cols, GroupKeys(df, cols))
    IN  [j \in DOMAIN keys |->
            KeyCols(cols, keys[j]) @@
            ("temp" :> Mean(df.rows, "temp", GroupRows(df, cols, keys[j]))) @@
            ("total_count" :> SumAt(df.rows, "total_count", GroupRows(df, cols, keys[j])))]

\* (variant) the last row attaining the maximum.
IdxMaxLast(tbl) ==
    tbl[CHOOSE i \in DOMAIN tbl :
            /\ \A j \in DOMAIN tbl : tbl[j].total_count <= tbl[i].total_count
            /\ \A j \in (i + 1)..Len(tbl) : tbl[j].total_count < tbl[i].total_count].hour

\* idxmax / idxmin of the grouped frame's total_count: the label of the
\* first row attaining the extremum.
IdxMax(tbl) ==
    tbl[CHOOSE i \in DOMAIN tbl :
            /\ \A j \in DOMAIN tbl : tbl[j].total_count <= tbl[i].total_count
            /\ \A j \in 1..(i - 1) : tbl[j].total_count < tbl[i].total_count].hour

IdxMin(tbl) ==
    tbl[CHOOSE i \in DOMAIN tbl :
            /\ \A j \in DOMAIN tbl : tbl[j].total_count >= tbl[i].total_count
            /\ \A j \in 1..(i - 1) : tbl[j].total_count > tbl[i].total_count].hour

----------------------------------------------------------------------------
(* The functions of dashboard.py *)

\* (variant) a missing file yields an empty frame instead of None.
load_data_empty_frame(f) == IF f.exists THEN DataFrame(f.rows) ELSE DataFrame(<<>>)

load_data(f) == IF f.exists THEN DataFrame(f.rows) ELSE None

\* monthly_count assigns data["month"]: the frame it was given, afterwards.
monthly_count_data(df) ==
    [df EXCEPT !.rows = [i \in DOMAIN df.rows |->
                            [df.rows[i] EXCEPT !.month = ToCategory(@)]],
               !.month_dtype = "category"]

monthly_count(df) == GroupSum(monthly_count_data(df), <<"month">>)

yearly_count(df) == GroupSum(df, <<"year", "month">>)

monthly_weekday_count(df) == GroupMeanSum(df, <<"month", "workingday">>)

hourly_count(df) == GroupSum(df, <<"hour">>)

best_hour_select(df) == IdxMax(GroupSum(df, <<"hour">>))

worst_hour_select(df) == IdxMin(GroupSum(df, <<"hour">>))

season_year_data(df) == GroupSum(df, <<"season", "year">>)

seasonal(df) == GroupTempSum(df, <<"date", "season">>)

dailydata(df) == GroupSum(df, <<"date">>)

\* lines 145-147: the whole-dataset roll-ups
total_users(df) == SumAt(df.rows, "total_count", DOMAIN df.rows)

\* (variant) the casual roll-up sums the wrong column.
casual_users_wrong_column(df) == SumAt(df.rows, "registered", DOMAIN df.rows)

casual_users(df) == SumAt(df.rows, "casual", DOMAIN df.rows)

registered_users(df) == SumAt(df.rows, "registered", DOMAIN df.rows)

\* (variant) weeks ending on Saturday.
WeekEndSaturday(d) == d + ((5 - (d % 7)) % 7)

\* resample("W"): the bucket of a day ends on the first Sunday on or after it.
WeekEnd(d) == d + (6 - (d % 7))

\* line 101, week = data.copy(): the table weekly_trend was given keeps
\* its rows and its date column.
weekly_trend_data(tbl) == tbl

\* weekly_trend works on a copy of the table; one row per week from the
\* first day's bucket to the last day's, empty weeks included (mean NaN).
weekly_trend(tbl) ==
    IF tbl = <<>> THEN <<>>
    ELSE LET first == CHOOSE d \in {tbl[i].date : i \in DOMAIN tbl} :
                          \A i \in DOMAIN tbl : d <= tbl[i].date
             last  == CHOOSE d \in {tbl[i].date : i \in DOMAIN tbl} :
                          \A i \in DOMAIN tbl : d >= tbl[i].date
             nweeks == ((WeekEnd(last) - WeekEnd(first)) \div 7) + 1
             Label(j) == WeekEnd(first) + 7 * (j - 1)
         IN  [j \in 1..nweeks |->
                [date |-> Label(j),
                 total_count |->
                    Mean(tbl, "total_count",
                         {i \in DOMAIN tbl : WeekEnd(tbl[i].date) = Label(j)})]]

----------------------------------------------------------------------------
(* Module-level statements, lines 121-147 *)

Bind(name, value) == [n \in DOMAIN results \cup {name} |->
                         IF n = name THEN value ELSE results[n]]

Bound(name) == name \in DOMAIN results

\* The statement at label l may run: next in the script, or any time when
\* the functions are called freely.
At(l) == \/ mode = "script" /\ pc = l
         \/ mode = "calls" /\ pc = "calls" /\ ncalls < MaxCalls

Goto(l) == pc' = IF mode = "script" THEN l ELSE "calls"

\* An unhandled exception ends the run.
Raise == pc' = "crashed"

\* name = f(main_data): data2 is main_data after the call.
Call(l, next, raises, name, value, data2) ==
    /\ At(l)
    /\ ncalls' = ncalls + 1
    /\ IF raises
       THEN Raise /\ UNCHANGED <<main_data, results>>
       ELSE Goto(next) /\ main_data' = data2 /\ results' = Bind(name, value)
    /\ UNCHANGED <<file, observed, mode, st_errors>>

\* Subscripting or calling a method of None, or of an unbound name, raises.
NoFrame == main_data.kind # "DataFrame"

\* line 31: st.error
LoadErrorMessage == "Failed to load data. File not found."

\* line 121
LoadData ==
    /\ pc = "L121"
    /\ main_data' = load_data(file)
    /\ st_errors' = IF file.exists THEN st_errors
                    ELSE Append(st_errors, LoadErrorMessage)
    /\ pc' = "L122"
    /\ UNCHANGED <<file, observed, mode, results, ncalls>>

\* line 122: main_data.head()
HeadCall ==
    /\ pc = "L122"
    /\ IF NoFrame THEN Raise ELSE Goto("L133")
    /\ UNCHANGED <<file, observed, mode, main_data, results, ncalls, st_errors>>

MonthlyCount ==
    Call("L133", "L134", NoFrame, "monthly_counts",
         monthly_count(main_data), monthly_count_data(main_data))

YearlyCount ==
    Call("L134", "L135", NoFrame, "yearly_counts", yearly_count(main_data), main_data)

MonthlyWeekdayCount ==
    Call("L135", "L136", NoFrame, "monthly_weekday_counts",
         monthly_weekday_count(main_data), main_data)

HourlyCount ==
    Call("L136", "L137", NoFrame, "hourly_data", hourly_count(main_data), main_data)

\* idxmax and idxmin of an empty frame raise ValueError.
BestHourSelect ==
    Call("L137", "L138", NoFrame \/ main_data.rows = <<>>, "best_hour",
         best_hour_select(main_data), main_data)

WorstHourSelect ==
    Call("L138", "L139", NoFrame \/ main_data.rows = <<>>, "worst_hour",
         worst_hour_select(main_data), main_data)

SeasonYearData ==
    Call("L139", "L140", NoFrame, "season_year", season_year_data(main_data), main_data)

Seasonal ==
    Call("L140", "L141", NoFrame, "seasonal_data", seasonal(main_data), main_data)

DailyData ==
    Call("L141", "L142", NoFrame, "daily_data", dailydata(main_data), main_data)

\* line 142: weekly_average = weekly_trend(daily_data); daily_data is the
\* frame weekly_trend was given, afterwards.
WeeklyTrend ==
    /\ Bound("daily_data")
    /\ At("L142")
    /\ ncalls' = ncalls + 1
    /\ Goto("L145")
    /\ results' =
         [n \in DOMAIN results \cup {"weekly_average"} |->
            CASE n = "weekly_average" -> weekly_trend(results["daily_data"])
              [] n = "daily_data" -> weekly_trend_data(results["daily_data"])
              [] OTHER -> results[n]]
    /\ UNCHANGED <<file, observed, mode, main_data, st_errors>>

\* lines 145-147
RollUps ==
    /\ At("L145")
    /\ ncalls' = ncalls + 1
    /\ IF NoFrame
       THEN Raise /\ UNCHANGED results
       ELSE /\ Goto("done")
            /\ results' =
                 [n \in DOMAIN results \cup {"total_users", "casual_users", "registered_users"} |->
                    CASE n = "total_users" -> total_users(main_data)
                      [] n = "casual_users" -> casual_users(main_data)
                      [] n = "registered_users" -> registered_users(main_data)
                      [] OTHER -> results[n]]
    /\ UNCHANGED <<file, observed, mode, main_data, st_errors>>

Files == {[exists |-> FALSE, rows |-> <<>>]} \cup
         {[exists |-> TRUE, rows |-> rows] : rows \in Datasets}

Init ==
    /\ file \in Files
    /\ observed \in BOOLEAN
    /\ mode \in {"script", "calls"}
    /\ pc = "L121"
    /\ main_data = Unbound
    /\ results = <<>>
    /\ ncalls = 0
    /\ st_errors = <<>>

Next ==
    \/ LoadData
    \/ HeadCall
    \/ MonthlyCount
    \/ YearlyCount
    \/ MonthlyWeekdayCount
    \/ HourlyCount
    \/ BestHourSelect
    \/ WorstHourSelect
    \/ SeasonYearData
    \/ Seasonal
    \/ DailyData
    \/ WeeklyTrend
    \/ RollUps

Spec == Init /\ [][Next]_vars

----------------------------------------------------------------------------
(* weekly_trend applied to a daily-totals table of its own *)

DayValues == {100, 3}
Gaps == {0, 8}

\* n daily rows from day s on: the second half g days later, total_count
\* v on every day (e = 0) or v, v+1, v+2, v, ... (e = 1).
DailyTable(s, n, v, e, g) ==
    [i \in 1..n |->
        [date |-> s + (i - 1) + (IF 2 * i > n THEN g ELSE 0),
         total_count |-> v + e * ((i - 1) % 3)]]

DailyTables ==
    {DailyTable(s, n, v, e, g) :
        s \in 0..(MaxStart - 1), n \in 1..MaxDays, v \in DayValues, e \in {0, 1}, g \in Gaps}

InitWeekly ==
    /\ file = [exists |-> FALSE, rows |-> <<>>]
    /\ observed = FALSE
    /\ mode = "calls"
    /\ pc = "calls"
    /\ main_data = Unbound
    /\ \E tbl \in DailyTables : results = [n \in {"daily_data"} |-> tbl]
    /\ ncalls = 0
    /\ st_errors = <<>>

NextWeekly == WeeklyTrend

SpecWeekly == InitWeekly /\ [][NextWeekly]_vars

----------------------------------------------------------------------------
(* Properties *)

\* Sum of column col over the records of seq; over those that satisfy Keep.
RECURSIVE ColSum(_, _)
ColSum(seq, col) ==
    IF seq = <<>> THEN 0 ELSE Head(seq)[col] + ColSum(Tail(seq), col)

SeqSum(seq, col, Keep(_)) == ColSum(SelectSeq(seq, Keep), col)

\* Record r carries the key of output row t on the key columns cols.
SameKey(r, t, cols) == \A i \in DOMAIN cols : r[cols[i]] = t[cols[i]]

\* Table name, grouped on cols, accounts for every record of the file once.
GroupedSumExact(name, cols) ==
    Bound(name) =>
        LET t == results[name]
        IN  /\ \A j \in DOMAIN t :
                t[j].total_count =
                    SeqSum(file.rows, "total_count", LAMBDA r : SameKey(r, t[j], cols))
            /\ \A i \in DOMAIN file.rows :
                Cardinality({j \in DOMAIN t : SameKey(file.rows[i], t[j], cols)}) = 1
            /\ SeqSum(t, "total_count", LAMBDA r : TRUE) =
                    SeqSum(file.rows, "total_count", LAMBDA r : TRUE)

\* C1: in each grouped-sum table (monthly_count, yearly_count, hourly_count,
\* season_year_data, dailydata) every output row's total_count is the sum of
\* total_count over exactly the input rows with that row's key, every input
\* row falls in exactly one output group, and the output totals add up to
\* the dataset's grand total.
C1_GroupedSums ==
    /\ GroupedSumExact("monthly_counts", <<"month">>)
    /\ GroupedSumExact("yearly_counts", <<"year", "month">>)
    /\ GroupedSumExact("hourly_data", <<"hour">>)
    /\ GroupedSumExact("season_year", <<"season", "year">>)
    /\ GroupedSumExact("daily_data", <<"date">>)

\* Two records of one month, year, hour, season and date were summed by all
\* five functions.
C1_Witness ==
    /\ Len(file.rows) = 2
    /\ file.rows[1].date = file.rows[2].date
    /\ file.rows[1].hour = file.rows[2].hour
    /\ \A n \in {"monthly_counts", "yearly_counts", "hourly_data",
                 "season_year", "daily_data"} : Bound(n)

Permute(rows, p) == [i \in DOMAIN rows |-> rows[p[i]]]

\* C2: the rows monthly_count returns are in calendar order Jan..Dec, and
\* monthly_count returns the same table for every permutation of the
\* file's rows.
C2_MonthlyCalendarOrder ==
    Bound("monthly_counts") =>
        LET t == results["monthly_counts"]
        IN  /\ \A i, j \in DOMAIN t :
                i < j => IndexOf(month_order, t[i].month) < IndexOf(month_order, t[j].month)
            /\ \A p \in Permutations(DOMAIN file.rows) :
                monthly_count(DataFrame(Permute(file.rows, p))) = t

\* monthly_count ran on a file that lists April before January.
C2_Witness ==
    /\ Bound("monthly_counts")
    /\ Len(file.rows) = 2
    /\ file.rows[1].month = "Apr"
    /\ file.rows[2].month = "Jan"

HoursPresent == {file.rows[i].hour : i \in DOMAIN file.rows}

HourTotal(h) == SeqSum(file.rows, "total_count", LAMBDA r : r.hour = h)

\* C3: best_hour_select returns a present hour whose summed total_count is
\* at least that of every hour present, worst_hour_select one whose sum is
\* at most that of every hour present, and each returns the smallest hour
\* among those attaining its extremum.
C3_BestWorstHour ==
    /\ Bound("best_hour") =>
            /\ results["best_hour"] \in HoursPresent
            /\ \A g \in HoursPresent :
                /\ HourTotal(results["best_hour"]) >= HourTotal(g)
                /\ HourTotal(g) = HourTotal(results["best_hour"]) => results["best_hour"] <= g
    /\ Bound("worst_hour") =>
            /\ results["worst_hour"] \in HoursPresent
            /\ \A g \in HoursPresent :
                /\ HourTotal(results["worst_hour"]) <= HourTotal(g)
                /\ HourTotal(g) = HourTotal(results["worst_hour"]) => results["worst_hour"] <= g

\* Both selections ran on a file where two hours share the same sum.
C3_Witness ==
    /\ Bound("best_hour")
    /\ Bound("worst_hour")
    /\ \E g, h \in HoursPresent : g # h /\ HourTotal(g) = HourTotal(h)

\* C4: a second call of an aggregation function returns the table its
\* earlier call returned, whatever was called in between: a name that is
\* bound keeps its value when it is bound again.
C4_SameCallSameTable ==
    [][\A n \in DOMAIN results : n \in DOMAIN results' => results'[n] = results[n]]_vars

\* C5: no aggregation function changes the dataset: main_data stays the
\* frame that load_data returned, month column included.
C5_DatasetUnchanged ==
    main_data.kind = "DataFrame" => main_data = load_data(file)

\* C6: when the data file does not exist, load_data reports the error and
\* returns None instead of a dataset, and no aggregation function is
\* invoked afterwards in that run.
C6_LoadFailureStopsPipeline ==
    (~file.exists /\ pc # "L121") =>
        /\ main_data = None
        /\ st_errors = <<LoadErrorMessage>>
        /\ ncalls = 0
        /\ DOMAIN results = {}

\* The run of a missing file, after load_data returned and line 122 ran.
C6_Witness == ~file.exists /\ pc \notin {"L121", "L122"}

\* C7: when the data file does not exist, no statement of the run raises
\* an unhandled error.
C7_LoadFailureNoCrash == ~file.exists => pc # "crashed"

Is14DayConstant(tbl) ==
    /\ Len(tbl) = 14
    /\ \A i \in 1..13 : tbl[i + 1].date = tbl[i].date + 1
    /\ \A i \in 1..14 : tbl[i].total_count = tbl[1].total_count

AllMeansEqual(w, v) ==
    \A j \in DOMAIN w : w[j].total_count.n > 0 /\ w[j].total_count.sum = v * w[j].total_count.n

\* C8 as stated: for 14 consecutive dates of constant total_count v,
\* starting on any weekday, weekly_trend returns exactly 2 rows, each with
\* mean v.
C8_TwoWeeklyRows ==
    (Bound("weekly_average") /\ Is14DayConstant(results["daily_data"])) =>
        /\ Len(results["weekly_average"]) = 2
        /\ AllMeansEqual(results["weekly_average"], results["daily_data"][1].total_count)

\* C8 amended: for 14 consecutive dates of constant total_count v,
\* weekly_trend returns 2 rows when the first date is a Monday and 3 rows
\* otherwise, each with mean v.
C8_WeeklyRowsByStartDay ==
    (Bound("weekly_average") /\ Is14DayConstant(results["daily_data"])) =>
        /\ Len(results["weekly_average"]) =
              (IF results["daily_data"][1].date % 7 = 0 THEN 2 ELSE 3)
        /\ AllMeansEqual(results["weekly_average"], results["daily_data"][1].total_count)

\* weekly_trend ran on 14 consecutive constant days that start on a
\* Wednesday and returned 3 rows.
C8_Witness ==
    /\ Bound("weekly_average")
    /\ Is14DayConstant(results["daily_data"])
    /\ results["daily_data"][1].date % 7 = 2
    /\ Len(results["weekly_average"]) = 3

\* C9: yearly_count returns its rows by year ascending and, within a year,
\* in calendar month order, whatever was called before it.
C9_YearlyCalendarOrder ==
    Bound("yearly_counts") =>
        LET t == results["yearly_counts"]
        IN  \A i, j \in DOMAIN t :
                i < j =>
                    \/ t[i].year < t[j].year
                    \/ /\ t[i].year = t[j].year
                       /\ IndexOf(month_order, t[i].month) < IndexOf(month_order, t[j].month)

RecordsAddUp == \A i \in DOMAIN file.rows :
                    file.rows[i].total_count = file.rows[i].casual + file.rows[i].registered

\* Within every group of table name, casual + registered sums to the
\* group's total (column total of the table).
GroupAddsUp(name, cols, total) ==
    Bound(name) =>
        \A j \in DOMAIN results[name] :
            SeqSum(file.rows, "casual", LAMBDA r : SameKey(r, results[name][j], cols))
          + SeqSum(file.rows, "registered", LAMBDA r : SameKey(r, results[name][j], cols))
          = results[name][j][total]

\* C10: when every record has total_count = casual + registered, the
\* roll-ups satisfy casual_users + registered_users = total_users, each
\* roll-up is the plain sum of its column over all records whatever ran
\* before it, and casual + registered = total_count holds within every
\* group of every aggregated table.
C10_RollUpsAddUp ==
    RecordsAddUp =>
        /\ Bound("total_users") =>
            /\ results["casual_users"] + results["registered_users"] = results["total_users"]
            /\ results["total_users"] = SeqSum(file.rows, "total_count", LAMBDA r : TRUE)
            /\ results["casual_users"] = SeqSum(file.rows, "casual", LAMBDA r : TRUE)
            /\ results["registered_users"] = SeqSum(file.rows, "registered", LAMBDA r : TRUE)
        /\ GroupAddsUp("monthly_counts", <<"month">>, "total_count")
        /\ GroupAddsUp("yearly_counts", <<"year", "month">>, "total_count")
        /\ GroupAddsUp("monthly_weekday_counts", <<"month", "workingday">>, "total_count_sum")
        /\ GroupAddsUp("hourly_data", <<"hour">>, "total_count")
        /\ GroupAddsUp("season_year", <<"season", "year">>, "total_count")
        /\ GroupAddsUp("seasonal_data", <<"date", "season">>, "total_count")
        /\ GroupAddsUp("daily_data", <<"date">>, "total_count")

\* The roll-ups ran after monthly_count on a file of two records.
C10_Witness ==
    /\ Bound("total_users")
    /\ Bound("monthly_counts")
    /\ Len(file.rows) = 2
    /\ results["casual_users"] # results["registered_users"]

\* Table name, grouped on cols, has exactly one row for each key that
\* occurs in the file and no row for a key that occurs in no record.
OneRowPerOccurringKey(name, cols) ==
    Bound(name) =>
        LET t == results[name]
        IN  /\ \A i \in DOMAIN file.rows :
                Cardinality({j \in DOMAIN t : SameKey(file.rows[i], t[j], cols)}) = 1
            /\ \A j \in DOMAIN t :
                \E i \in DOMAIN file.rows : SameKey(file.rows[i], t[j], cols)

\* C11: when the module runs top to bottom (yearly_count and
\* monthly_weekday_count after monthly_count), every aggregated table has
\* exactly one row for each key or key combination that occurs in at
\* least one input record and no row for one that occurs in none.
C11_OneRowPerOccurringKey ==
    mode = "script" =>
        /\ OneRowPerOccurringKey("monthly_counts", <<"month">>)
        /\ OneRowPerOccurringKey("yearly_counts", <<"year", "month">>)
        /\ OneRowPerOccurringKey("monthly_weekday_counts", <<"month", "workingday">>)
        /\ OneRowPerOccurringKey("hourly_data", <<"hour">>)
        /\ OneRowPerOccurringKey("season_year", <<"season", "year">>)
        /\ OneRowPerOccurringKey("seasonal_data", <<"date", "season">>)
        /\ OneRowPerOccurringKey("daily_data", <<"date">>)

\* The first Sunday on or after day d.
FirstSundayOnOrAfter(d) == CHOOSE x \in d..(d + 6) : x % 7 = 6

\* The daily rows of the week that ends on day x.
Bucket(tbl, x) == {i \in DOMAIN tbl : FirstSundayOnOrAfter(tbl[i].date) = x}

DailySum(tbl, I) == SeqSum(tbl, "total_count", LAMBDA r : \E i \in I : tbl[i] = r)

\* Mean m, multiplied by k, equals s (a missing mean equals nothing).
MeanTimesIs(m, k, s) == m.n > 0 /\ m.sum * k = s * m.n

EveryDayInOneWeek(d, w) ==
    \A i \in DOMAIN d :
        Cardinality({j \in DOMAIN w : w[j].date = FirstSundayOnOrAfter(d[i].date)}) = 1

\* weekly_trend leaves the table it was given as it was.
DailyTableKept ==
    [][Bound("daily_data") => results'["daily_data"] = results["daily_data"]]_vars

\* C12 as stated: weekly_trend puts every daily row in exactly one week
\* bucket, the week ending on the first Sunday on or after its date; every
\* output row's total_count times the number of daily rows in its bucket
\* equals the sum of those rows' total_count; and the daily-totals table
\* is left unchanged.
C12_WeeklyMeanEveryRow ==
    /\ [](Bound("weekly_average") =>
            LET d == results["daily_data"]
                w == results["weekly_average"]
            IN  /\ EveryDayInOneWeek(d, w)
                /\ \A j \in DOMAIN w :
                    MeanTimesIs(w[j].total_count, Cardinality(Bucket(d, w[j].date)),
                                DailySum(d, Bucket(d, w[j].date))))
    /\ DailyTableKept

\* C12 amended: as stated for every output row whose bucket holds at least
\* one daily row; a week between the first and the last bucket that holds
\* no daily row has an output row whose total_count is missing.
C12_WeeklyMeanNonEmptyWeeks ==
    /\ [](Bound("weekly_average") =>
            LET d == results["daily_data"]
                w == results["weekly_average"]
            IN  /\ EveryDayInOneWeek(d, w)
                /\ \A j \in DOMAIN w :
                    IF Bucket(d, w[j].date) = {}
                    THEN w[j].total_count.n = 0
                    ELSE MeanTimesIs(w[j].total_count, Cardinality(Bucket(d, w[j].date)),
                                     DailySum(d, Bucket(d, w[j].date))))
    /\ DailyTableKept

\* weekly_trend ran on a table with a week of no rows, a week of some
\* rows and differing daily totals.
C12_Witness ==
    /\ Bound("weekly_average")
    /\ \E j \in DOMAIN results["weekly_average"] :
            results["weekly_average"][j].total_count.n = 0
    /\ \E j \in DOMAIN results["weekly_average"] :
            results["weekly_average"][j].total_count.n \in 2..6
    /\ \E i, k \in DOMAIN results["daily_data"] :
            results["daily_data"][i].total_count # results["daily_data"][k].total_count

====
